---- MODULE Spec2Model ----
(***************************************************************************)
(* Model of the game orchestrator: the ProcessManager slot                 *)
(* (process_manager.py) driven by the Orchestrator (orchestrator.py) from  *)
(* two threads: the MQTT network thread, which runs _on_connect and the    *)
(* intent handlers, and the main thread, which runs the exit-polling loop  *)
(* of run() and the shutdown code.  Every read or write of a shared field  *)
(* of the ProcessManager is one step; the code takes no lock.              *)
(***************************************************************************)
EXTENDS Integers, FiniteSets, Sequences, TLC

\* ---------------------------------------------------------------- bounds
\* number of child processes the model lets start() spawn
MaxProcs == 2
\* the longest health-check timeout and polling interval, in tenths of a second
MaxTimeout == 5
MaxInterval == 3

\* ------------------------------------------------------------- constants
Threads == {"msg", "main"}
Pids == 1..MaxProcs
NoProc == 0
NoGame == "none"
\* ids of the games of the manifest, and the names a launch intent can carry
Games == {"A", "B"}
Spoken == {"A", "a", "b", "?", ""}
Platforms == {"posix", "windows"}

VARIABLES
    platform,     \* the host the build runs on (decides psutil's answers)
    pm_proc,      \* ProcessManager._proc
    pm_game,      \* ProcessManager._game (the id of the GameEntry)
    pm_stopping,  \* ProcessManager._stopping
    child,        \* per child process: its state in the OS and what happened to it
    nspawn,       \* number of children spawned so far
    pc,           \* per thread: the statement it is at
    site,         \* per thread: the call site of the ProcessManager call in progress
    proc,         \* per thread: the local `proc` of start / stop / poll_exit
    game,         \* per thread: the local `game` of stop / poll_exit
    exc,          \* per thread: the exception pending in stop's try block
    exit_info,    \* per thread: the local `exit_info`
    returncode,   \* per thread: the local `returncode` of stop / poll_exit
    hgame,        \* the local `game` of _handle_launch_intent
    expected,     \* the local `expected` of poll_exit
    published,    \* mode and game id of the last payload handed to client.publish
    log,          \* per thread: what it did in the handler invocation it is in
    hc_pc,        \* HealthChecker: the statement wait_until_healthy is at
    cfg,          \* HealthChecker: the health-check settings of the game
    clock,        \* HealthChecker: time.time(), in tenths of a second
    deadline,     \* HealthChecker: the local `deadline` of _wait_http
    last_error,   \* HealthChecker: the local `last_error` of _wait_http
    nreq,         \* HealthChecker: number of calls of session.get so far
    raised,       \* HealthChecker: the HealthCheckError raised, if any
    ir_pc,        \* IntentRouter: the statement dispatch is at
    payload,      \* IntentRouter: the argument of dispatch
    intent,       \* IntentRouter: the local `intent` of dispatch
    handler_calls, \* IntentRouter: the handler calls dispatch has made, in order
    dg_pc,        \* module loading: the position of the import that is next
    entry,        \* module loading: what is being loaded or called
    modules,      \* module loading: the third-party modules it imports, in order
    missing,      \* module loading: the modules that are not installed
    imported,     \* module loading: the modules imported so far, in order
    reported,     \* module loading: the calls of on_error, in order
    outcome       \* module loading: how it ended

pmVars == <<pm_proc, pm_game, pm_stopping>>
osVars == <<child, nspawn>>
localVars == <<proc, game, exc, exit_info, returncode, hgame, expected>>
\* the orchestrator and its process manager
orchVars == <<platform, pm_proc, pm_game, pm_stopping, child, nspawn, pc, site,
              proc, game, exc, exit_info, returncode, hgame, expected, published, log>>
\* the health checker, taken on its own
healthVars == <<hc_pc, cfg, clock, deadline, last_error, nreq, raised>>
\* the intent router, taken on its own
routerVars == <<ir_pc, payload, intent, handler_calls>>
\* the units that are taken on their own
\* the loading of an entrypoint and the dependency guard, taken on their own
guardVars == <<dg_pc, entry, modules, missing, imported, reported, outcome>>
unitVars == <<healthVars, routerVars, guardVars>>
\* all but the health checker, all but the intent router, all but the guard
notHealth == <<orchVars, routerVars, guardVars>>
notRouter == <<orchVars, healthVars, guardVars>>
notGuard == <<orchVars, healthVars, routerVars>>
vars == <<orchVars, unitVars>>

\* ------------------------------------------------------------- helpers
\* an Optional[int]: None is the empty sequence, the integer c is <<c>>
NoCode == <<>>

\* the exit status of a child that exits on its own (the signalled ones: signal_code)
ExitCodes == {137}

NoExit == [some |-> FALSE, pid |-> NoProc, game_id |-> NoGame, returncode |-> NoCode,
           expected |-> FALSE]

ProcessExit(p, g, r, e) ==
    [some |-> TRUE, pid |-> p, game_id |-> g, returncode |-> r, expected |-> e]

\* A child process.  state: "unborn", "alive", "zombie" (exited and not yet
\* waited for) or "reaped".  sig: the strongest signal that reached it.  The
\* code: its exit status once it has exited.  The
\* other fields are history: stop (stop() set the marker for it), self (it
\* exited before any stop() was initiated on it) and exits (the ProcessExit
\* records returned for it, as <<operation, expected>>).
Unborn == [state |-> "unborn", sig |-> "none", code |-> NoCode, stop |-> FALSE, self |-> FALSE,
           exits |-> {}]

Gone == [Unborn EXCEPT !.state = "reaped"]

\* The history of a child is kept while the slot or a local variable still
\* holds its handle; later nothing can be reported about it any more.
Forget(c, slot, locals) ==
    [p \in Pids |->
        IF p = slot \/ \E t \in Threads : locals[t] = p THEN c[p]
        ELSE IF c[p].state = "unborn" THEN Unborn
        ELSE IF c[p].state = "alive" THEN [Gone EXCEPT !.state = "alive"]
        ELSE Gone]

\* str.lower().strip() on the names a launch intent can carry
lower(spoken) == IF spoken = "A" THEN "a" ELSE spoken

\* Manifest._syn_to_id: the lower-cased ids, names and synonyms of the games
syn_to_id == [key \in {"a", "b"} |-> IF key = "a" THEN "A" ELSE "B"]

\* Manifest.resolve: the GameEntry a spoken name stands for, or none
resolve(spoken) ==
    LET key == lower(spoken)
    IN  IF key = "" THEN NoGame
        ELSE IF key \in DOMAIN syn_to_id THEN syn_to_id[key]
        ELSE NoGame

\* GameEntry.healthcheck of the two games: A has none, B is probed over http
healthcheck(g) == IF g = "A" THEN "none" ELSE "http"

\* psutil.Process.is_running of a child: a live child is running, a child
\* that was waited for is not; one that exited and was not waited for is a
\* zombie on posix (reported as running) and is gone on windows.
proc_is_running(p) ==
    IF child[p].state = "alive" THEN TRUE
    ELSE IF child[p].state = "zombie" THEN platform = "posix"
    ELSE FALSE

\* the exit status psutil reports for a child ended by the signal k of
\* terminate() or kill(): minus the signal number on posix, and the status
\* given to TerminateProcess (signal.SIGTERM) on windows
signal_code(k) ==
    IF platform = "windows" THEN 15
    ELSE IF k = "kill" THEN -9 ELSE -15

\* the result of psutil.Process.wait(timeout=0) as stop and poll_exit keep
\* it: the exit status, or None (TimeoutExpired) for a live child
wait_0(c, p) == IF c[p].state = "alive" THEN NoCode ELSE c[p].code

\* psutil.Process.wait on a child that has exited: the child is waited for
Reap(c, p) == IF c[p].state = "zombie" THEN [c EXCEPT ![p].state = "reaped"] ELSE c

\* the decimal digits of a natural number
RECURSIVE Decimal(_)
Decimal(n) ==
    LET d == <<"0", "1", "2", "3", "4", "5", "6", "7", "8", "9">>[(n % 10) + 1]
    IN  IF n < 10 THEN d ELSE Decimal(n \div 10) \o d

\* str() of an Optional[int], as the f-string of _handle_process_exit formats it
str(r) ==
    IF r = NoCode THEN "None"
    ELSE IF r[1] < 0 THEN "-" \o Decimal(-r[1])
    ELSE Decimal(r[1])

\* ProcessManager.current_game_id
current_game_id == pm_game

Goto(t, l) == pc' = [pc EXCEPT ![t] = l]

\* thread t records what it does: a payload it publishes, a call it makes or
\* how the call ends
Log(t, events) == log' = [log EXCEPT ![t] = @ \o events]

\* the event of stop() returning e: whether e is a ProcessExit, and whether
\* its returncode is an exit status of the child's own (not that of a signal)
StopReturned(e) ==
    <<"stop_returned", e.some, \E c \in ExitCodes : e.returncode = <<c>>>>

\* Orchestrator._publish_state, called by thread t; calls are the calls of
\* the ProcessManager that t goes on to make in the same step
publish_state(t, mode, detail, game_id, calls) ==
    LET gid == IF game_id # NoGame THEN game_id ELSE current_game_id
    IN  /\ published' = [mode |-> mode, game_id |-> gid]
        /\ Log(t, <<(<<"publish", mode, gid, detail>>)>> \o calls)

\* the locals of a thread are dropped when its outermost call returns
DropLocals(t) ==
    /\ proc' = [proc EXCEPT ![t] = NoProc]
    /\ game' = [game EXCEPT ![t] = NoGame]
    /\ exc' = [exc EXCEPT ![t] = "none"]
    /\ exit_info' = [exit_info EXCEPT ![t] = NoExit]
    /\ returncode' = [returncode EXCEPT ![t] = NoCode]
    /\ site' = [site EXCEPT ![t] = "none"]
    /\ child' = Forget(child, pm_proc, [proc EXCEPT ![t] = NoProc])

OrchInit ==
    /\ platform \in Platforms
    /\ pm_proc = NoProc
    /\ pm_game = NoGame
    /\ pm_stopping = FALSE
    /\ child = [p \in Pids |-> Unborn]
    /\ nspawn = 0
    /\ pc = [t \in Threads |-> IF t = "msg" THEN "idle" ELSE "sleep"]
    /\ site = [t \in Threads |-> "none"]
    /\ proc = [t \in Threads |-> NoProc]
    /\ game = [t \in Threads |-> NoGame]
    /\ exc = [t \in Threads |-> "none"]
    /\ exit_info = [t \in Threads |-> NoExit]
    /\ returncode = [t \in Threads |-> NoCode]
    /\ hgame = NoGame
    /\ expected = FALSE
    /\ published = [mode |-> "NONE", game_id |-> NoGame]
    /\ log = [t \in Threads |-> <<>>]

\* an Optional[str]: None is the empty sequence, the string s is <<s>>
None == <<>>

\* the health checker when no health check is under way
HealthOff ==
    /\ hc_pc = "off"
    /\ cfg = [type |-> None, port |-> None, timeout |-> 0, interval |-> 1]
    /\ clock = 0
    /\ deadline = 0
    /\ last_error = None
    /\ nreq = 0
    /\ raised = None

\* the payload that is no dict, and the intent not built yet
NoDict == [dict |-> FALSE, type |-> None, game_name |-> None, game |-> None, source |-> None]
NoIntent == [type |-> "", game_name |-> None, source |-> None]

\* the intent router when no dispatch is under way
RouterOff ==
    /\ ir_pc = "off"
    /\ payload = NoDict
    /\ intent = NoIntent
    /\ handler_calls = <<>>

\* nothing is being loaded
GuardOff ==
    /\ dg_pc = 0
    /\ entry = "none"
    /\ modules = <<>>
    /\ missing = {}
    /\ imported = <<>>
    /\ reported = <<>>
    /\ outcome = "none"

Init == OrchInit /\ HealthOff /\ RouterOff /\ GuardOff

\* ------------------------------------------------------- the environment
\* A live child exits, on its own or because a signal reached it.
ProcExits(p) ==
    /\ child[p].state = "alive"
    /\ \E c \in IF child[p].sig = "none" THEN ExitCodes ELSE {signal_code(child[p].sig)} :
          child' = Forget([child EXCEPT ![p].state = "zombie", ![p].code = <<c>>,
                                        ![p].self = ~child[p].stop],
                          pm_proc, proc)
    /\ UNCHANGED <<platform, unitVars, log, pmVars, nspawn, pc, site, localVars, published>>

\* --------------------------------------------- ProcessManager.is_running
\* where the caller of is_running goes on with the answer r
AfterIsRunning(s, r) ==
    CASE s = "C76" -> IF r THEN "C76_running" ELSE "C76_idle"
      [] s = "L95" -> IF r THEN "L96" ELSE "L102"
      [] s = "E123" -> IF r THEN "E129" ELSE "E125"
      [] s = "L103" -> IF r THEN "L114" ELSE "start49"

\* `self._proc is not None`: the first read of the slot
is_running_a ==
    /\ pc["msg"] = "isr_a"
    /\ IF pm_proc = NoProc
       THEN Goto("msg", AfterIsRunning(site["msg"], FALSE))
       ELSE Goto("msg", "isr_b")
    /\ UNCHANGED <<platform, unitVars, log, pmVars, osVars, localVars, site, published>>

\* `self._proc.is_running()`: the second read of the slot and psutil's
\* answer.  With the slot emptied in between it is an AttributeError, which
\* the launch handler catches around start() and which otherwise leaves the
\* callback and ends the network thread.
is_running_b ==
    /\ pc["msg"] = "isr_b"
    /\ IF pm_proc # NoProc
       THEN /\ Goto("msg", AfterIsRunning(site["msg"], proc_is_running(pm_proc)))
            /\ IF site["msg"] = "L103" /\ proc_is_running(pm_proc)
               THEN Log("msg", <<(<<"start_raised">>)>>)
               ELSE UNCHANGED log
            /\ UNCHANGED <<localVars, site, child>>
       ELSE IF site["msg"] = "L103"
       THEN /\ Goto("msg", "L114")
            /\ Log("msg", <<(<<"start_raised">>)>>)
            /\ UNCHANGED <<localVars, site, child>>
       ELSE /\ Goto("msg", "dead")
            /\ Log("msg", <<(<<"raised">>)>>)
            /\ DropLocals("msg")
            /\ hgame' = NoGame
            /\ UNCHANGED expected
    /\ UNCHANGED <<platform, unitVars, pmVars, nspawn, published>>

\* -------------------------------------------------- ProcessManager.start
\* subprocess.Popen: a new child, or an exception
start_49 ==
    /\ pc["msg"] = "start49"
    /\ \/ /\ nspawn < MaxProcs
          /\ nspawn' = nspawn + 1
          /\ child' = [child EXCEPT ![nspawn + 1].state = "alive"]
          /\ proc' = [proc EXCEPT !["msg"] = nspawn + 1]
          /\ Goto("msg", "start60")
          /\ UNCHANGED log
       \/ /\ Goto("msg", "L114")
          /\ Log("msg", <<(<<"start_raised">>)>>)
          /\ UNCHANGED <<nspawn, child, proc>>
    /\ UNCHANGED <<platform, unitVars, pmVars, game, exc, exit_info, returncode, hgame, expected, site, published>>

\* `self._proc = psutil.Process(proc.pid)`
start_60 ==
    /\ pc["msg"] = "start60"
    /\ pm_proc' = proc["msg"]
    /\ child' = Forget(child, proc["msg"], proc)
    /\ Goto("msg", "start61")
    /\ UNCHANGED <<platform, unitVars, log, pm_game, pm_stopping, nspawn, localVars, site, published>>

\* `self._game = game`
start_61 ==
    /\ pc["msg"] = "start61"
    /\ pm_game' = hgame
    /\ Goto("msg", "start62")
    /\ UNCHANGED <<platform, unitVars, log, pm_proc, pm_stopping, osVars, localVars, site, published>>

\* `self._stopping = False`, and start returns
start_62 ==
    /\ pc["msg"] = "start62"
    /\ pm_stopping' = FALSE
    /\ proc' = [proc EXCEPT !["msg"] = NoProc]
    /\ child' = Forget(child, pm_proc, [proc EXCEPT !["msg"] = NoProc])
    /\ Goto("msg", "L104")
    /\ Log("msg", <<(<<"start_returned">>)>>)
    /\ UNCHANGED <<platform, unitVars, pm_proc, pm_game, nspawn, game, exc, exit_info, returncode, hgame, expected,
                   site, published>>

\* --------------------------------------------------- ProcessManager.stop
\* where a thread goes when stop() raises: nothing catches it, so the
\* network thread ends and the main thread leaves run()
AfterRaise(t) == IF t = "msg" THEN "dead" ELSE "done"

\* stop_65 with the marker set before the slot is tested
stop_65_marker_first(t) ==
    /\ pc[t] = "stop65"
    /\ pm_stopping' = TRUE
    /\ IF pm_proc = NoProc
       THEN /\ exit_info' = [exit_info EXCEPT ![t] = NoExit]
            /\ Goto(t, "hpe")
            /\ Log(t, <<StopReturned(NoExit)>>)
       ELSE /\ Goto(t, "stop68")
            /\ UNCHANGED <<exit_info, log>>
    /\ UNCHANGED <<platform, unitVars, pm_proc, pm_game, osVars, proc, game, exc, returncode, hgame,
                   expected, site, published>>

\* `if self._proc is None: return None`
stop_65(t) ==
    /\ pc[t] = "stop65"
    /\ IF pm_proc = NoProc
       THEN /\ exit_info' = [exit_info EXCEPT ![t] = NoExit]
            /\ Goto(t, "hpe")
            /\ Log(t, <<StopReturned(NoExit)>>)
       ELSE /\ Goto(t, "stop68")
            /\ UNCHANGED <<exit_info, log>>
    /\ UNCHANGED <<platform, unitVars, pmVars, osVars, proc, game, exc, returncode, hgame, expected,
                   site, published>>

\* `proc = self._proc`
stop_68(t) ==
    /\ pc[t] = "stop68"
    /\ proc' = [proc EXCEPT ![t] = pm_proc]
    /\ Goto(t, "stop69")
    /\ UNCHANGED <<platform, unitVars, log, pmVars, osVars, game, exc, exit_info, returncode, hgame, expected, site,
                   published>>

\* `game = self._game`
stop_69(t) ==
    /\ pc[t] = "stop69"
    /\ game' = [game EXCEPT ![t] = pm_game]
    /\ Goto(t, "stop70")
    /\ UNCHANGED <<platform, unitVars, log, pmVars, osVars, proc, exc, exit_info, returncode, hgame, expected, site,
                   published>>

\* `self._stopping = True`
stop_70(t) ==
    /\ pc[t] = "stop70"
    /\ pm_stopping' = TRUE
    /\ child' = IF proc[t] = NoProc THEN child ELSE [child EXCEPT ![proc[t]].stop = TRUE]
    /\ Goto(t, "stop73")
    /\ UNCHANGED <<platform, unitVars, log, pm_proc, pm_game, nspawn, localVars, site, published>>

\* `if proc.is_running():` (AttributeError when proc is None)
stop_73(t) ==
    /\ pc[t] = "stop73"
    /\ IF proc[t] = NoProc
       THEN /\ exc' = [exc EXCEPT ![t] = "AttributeError"]
            /\ Goto(t, "stop98")
       ELSE /\ Goto(t, IF proc_is_running(proc[t]) THEN "stop74" ELSE "stop98")
            /\ UNCHANGED exc
    /\ UNCHANGED <<platform, unitVars, log, pmVars, osVars, proc, game, exit_info, returncode, hgame, expected, site,
                   published>>

\* `for child in proc.children(recursive=True)`: psutil 5 raises NoSuchProcess
\* for a process that is gone by now, psutil 6 returns its (empty) list
stop_74(t) ==
    /\ pc[t] = "stop74"
    /\ \/ /\ Goto(t, "stop80")
          /\ UNCHANGED exc
       \/ /\ ~proc_is_running(proc[t])
          /\ exc' = [exc EXCEPT ![t] = "NoSuchProcess"]
          /\ Goto(t, "stop98")
    /\ UNCHANGED <<platform, unitVars, log, pmVars, osVars, proc, game, exit_info, returncode, hgame, expected, site,
                   published>>

\* a signal k sent to child p arrives, or sending it fails (the failure is logged)
Signal(p, k) ==
    \/ /\ child[p].state = "alive"
       /\ child' = [child EXCEPT ![p].sig = k]
    \/ child' = child

\* `proc.terminate()`
stop_80(t) ==
    /\ pc[t] = "stop80"
    /\ Signal(proc[t], "term")
    /\ Goto(t, "stop83")
    /\ UNCHANGED <<platform, unitVars, log, pmVars, nspawn, localVars, site, published>>

\* `gone, alive = psutil.wait_procs([proc], timeout=timeout_sec)`, `if alive:`
stop_83(t) ==
    /\ pc[t] = "stop83"
    /\ child' = Reap(child, proc[t])
    /\ Goto(t, IF child[proc[t]].state = "alive" THEN "stop88" ELSE "stop98")
    /\ UNCHANGED <<platform, unitVars, log, pmVars, nspawn, localVars, site, published>>

\* `p.kill()`
stop_88(t) ==
    /\ pc[t] = "stop88"
    /\ Signal(proc[t], "kill")
    /\ Goto(t, "stop92")
    /\ UNCHANGED <<platform, unitVars, log, pmVars, nspawn, localVars, site, published>>

\* `p.wait(timeout=timeout_sec)`
stop_92(t) ==
    /\ pc[t] = "stop92"
    /\ child' = Reap(child, proc[t])
    /\ Goto(t, "stop98")
    /\ UNCHANGED <<platform, unitVars, log, pmVars, nspawn, localVars, site, published>>

\* finally: `returncode = proc.wait(timeout=0)`; with proc None the
\* AttributeError leaves the finally block before the slot is cleared
stop_98(t) ==
    /\ pc[t] = "stop98"
    /\ IF proc[t] = NoProc
       THEN /\ Goto(t, AfterRaise(t))
            /\ Log(t, <<(<<"stop_raised">>)>>)
            /\ DropLocals(t)
            /\ hgame' = IF t = "msg" THEN NoGame ELSE hgame
       ELSE /\ child' = Reap(child, proc[t])
            /\ returncode' = [returncode EXCEPT ![t] = wait_0(child, proc[t])]
            /\ Goto(t, "stop103")
            /\ UNCHANGED <<proc, game, exc, exit_info, site, hgame, log>>
    /\ UNCHANGED <<platform, unitVars, pmVars, nspawn, expected, published>>

\* `self._proc = None`
stop_103(t) ==
    /\ pc[t] = "stop103"
    /\ pm_proc' = NoProc
    /\ child' = Forget(child, NoProc, proc)
    /\ Goto(t, "stop104")
    /\ UNCHANGED <<platform, unitVars, log, pm_game, pm_stopping, nspawn, localVars, site, published>>

\* `self._game = None`
stop_104(t) ==
    /\ pc[t] = "stop104"
    /\ pm_game' = NoGame
    /\ Goto(t, "stop105")
    /\ UNCHANGED <<platform, unitVars, log, pm_proc, pm_stopping, osVars, localVars, site, published>>

\* `self._stopping = False`, then the pending exception or
\* `return ProcessExit(..., expected=True)`
stop_105(t) ==
    /\ pc[t] = "stop105"
    /\ pm_stopping' = FALSE
    /\ IF exc[t] # "none"
       THEN /\ Goto(t, AfterRaise(t))
            /\ Log(t, <<(<<"stop_raised">>)>>)
            /\ DropLocals(t)
            /\ hgame' = IF t = "msg" THEN NoGame ELSE hgame
       ELSE /\ exit_info' = [exit_info EXCEPT ![t] = ProcessExit(proc[t], game[t], returncode[t], TRUE)]
            /\ child' = [child EXCEPT ![proc[t]].exits = @ \cup {<<"stop", TRUE>>}]
            /\ Goto(t, "hpe")
            /\ Log(t, <<StopReturned(exit_info'[t])>>)
            /\ UNCHANGED <<proc, game, exc, returncode, site, hgame>>
    /\ UNCHANGED <<platform, unitVars, pm_proc, pm_game, nspawn, expected, published>>

\* ----------------------------------------------- ProcessManager.poll_exit
\* the statements of the polling loop of run(), where KeyboardInterrupt can arrive
LoopPcs == {"sleep", "poll109", "poll112", "poll113", "poll115", "poll124", "poll125",
            "poll126", "poll127", "P152", "ret"}

\* `if self._proc is None: return None`
poll_exit_109 ==
    /\ pc["main"] = "poll109"
    /\ Goto("main", IF pm_proc = NoProc THEN "sleep" ELSE "poll112")
    /\ UNCHANGED <<platform, unitVars, log, pmVars, osVars, localVars, site, published>>

\* `proc = self._proc`
poll_exit_112 ==
    /\ pc["main"] = "poll112"
    /\ proc' = [proc EXCEPT !["main"] = pm_proc]
    /\ Goto("main", "poll113")
    /\ UNCHANGED <<platform, unitVars, log, pmVars, osVars, game, exc, exit_info, returncode, hgame, expected, site,
                   published>>

\* `game = self._game`
poll_exit_113 ==
    /\ pc["main"] = "poll113"
    /\ game' = [game EXCEPT !["main"] = pm_game]
    /\ Goto("main", "poll115")
    /\ UNCHANGED <<platform, unitVars, log, pmVars, osVars, proc, exc, exit_info, returncode, hgame, expected, site,
                   published>>

\* `returncode = proc.wait(timeout=0)`: AttributeError when proc is None (it
\* leaves run()'s loop), TimeoutExpired for a live child (return None), else
\* the child is waited for
poll_exit_115 ==
    /\ pc["main"] = "poll115"
    /\ IF proc["main"] = NoProc
       THEN /\ Goto("main", "R166")
            /\ DropLocals("main")
       ELSE IF child[proc["main"]].state = "alive"
       THEN /\ Goto("main", "sleep")
            /\ DropLocals("main")
       ELSE /\ child' = Reap(child, proc["main"])
            /\ returncode' = [returncode EXCEPT !["main"] = wait_0(child, proc["main"])]
            /\ Goto("main", "poll124")
            /\ UNCHANGED <<proc, game, exc, exit_info, site>>
    /\ UNCHANGED <<platform, unitVars, log, pmVars, nspawn, hgame, expected, published>>

\* `self._proc = None`
poll_exit_124 ==
    /\ pc["main"] = "poll124"
    /\ pm_proc' = NoProc
    /\ child' = Forget(child, NoProc, proc)
    /\ Goto("main", "poll125")
    /\ UNCHANGED <<platform, unitVars, log, pm_game, pm_stopping, nspawn, localVars, site, published>>

\* `self._game = None`
poll_exit_125 ==
    /\ pc["main"] = "poll125"
    /\ pm_game' = NoGame
    /\ Goto("main", "poll126")
    /\ UNCHANGED <<platform, unitVars, log, pm_proc, pm_stopping, osVars, localVars, site, published>>

\* `expected = self._stopping`
poll_exit_126 ==
    /\ pc["main"] = "poll126"
    /\ expected' = pm_stopping
    /\ Goto("main", "poll127")
    /\ UNCHANGED <<platform, unitVars, log, pmVars, osVars, proc, game, exc, exit_info, returncode, hgame, site,
                   published>>

\* `self._stopping = False`, `return ProcessExit(...)`
poll_exit_127 ==
    /\ pc["main"] = "poll127"
    /\ pm_stopping' = FALSE
    /\ exit_info' = [exit_info EXCEPT
                       !["main"] = ProcessExit(proc["main"], game["main"],
                                               returncode["main"], expected)]
    /\ child' = [child EXCEPT ![proc["main"]].exits = @ \cup {<<"poll", expected>>}]
    /\ Goto("main", "P152")
    /\ UNCHANGED <<platform, unitVars, log, pm_proc, pm_game, nspawn, proc, game, exc, returncode, hgame,
                   expected, site, published>>

\* --------------------------------------------- Orchestrator._poll_for_exit
\* poll_for_exit_152 without the test of `exit_info.expected`
poll_for_exit_152_always ==
    /\ pc["main"] = "P152"
    /\ IF FALSE
       THEN /\ Goto("main", "sleep")
            /\ DropLocals("main")
            /\ expected' = FALSE
       ELSE /\ site' = [site EXCEPT !["main"] = "P153"]
            /\ Goto("main", "hpe")
            /\ UNCHANGED <<proc, game, exc, exit_info, returncode, expected, child>>
    /\ UNCHANGED <<platform, unitVars, log, pmVars, nspawn, hgame, published>>

\* `if exit_info and not exit_info.expected: self._handle_process_exit(exit_info)`
poll_for_exit_152 ==
    /\ pc["main"] = "P152"
    /\ IF exit_info["main"].expected
       THEN /\ Goto("main", "sleep")
            /\ DropLocals("main")
            /\ expected' = FALSE
       ELSE /\ site' = [site EXCEPT !["main"] = "P153"]
            /\ Goto("main", "hpe")
            /\ UNCHANGED <<proc, game, exc, exit_info, returncode, expected, child>>
    /\ UNCHANGED <<platform, unitVars, log, pmVars, nspawn, hgame, published>>

\* ------------------------------------------ Orchestrator._handle_process_exit
\* where the caller goes on after _handle_process_exit
AfterHpe(s) ==
    CASE s = "L97" -> "L102"
      [] s \in {"L108", "L115", "E130", "P153"} -> "ret"
      [] s = "R168" -> "done"

\* handle_process_exit publishing nothing for an expected exit
handle_process_exit_silent(t) ==
    /\ pc[t] = "hpe"
    /\ IF ~exit_info[t].some
       THEN UNCHANGED <<published, log>>
       ELSE IF exit_info[t].expected
       THEN UNCHANGED <<published, log>>
       ELSE publish_state(t, "IDLE",
                          <<"game", IF exit_info[t].game_id = NoGame THEN "unknown"
                                    ELSE exit_info[t].game_id,
                            "crashed", "code", str(exit_info[t].returncode)>>,
                          NoGame, <<>>)
    /\ Goto(t, AfterHpe(site[t]))
    /\ DropLocals(t)
    /\ hgame' = IF t = "msg" /\ site[t] # "L97" THEN NoGame ELSE hgame
    /\ expected' = IF t = "main" THEN FALSE ELSE expected
    /\ UNCHANGED <<platform, unitVars, pmVars, nspawn>>

handle_process_exit(t) ==
    /\ pc[t] = "hpe"
    /\ IF ~exit_info[t].some
       THEN UNCHANGED <<published, log>>
       ELSE IF exit_info[t].expected
       THEN publish_state(t, "IDLE", <<>>, NoGame, <<>>)
       ELSE publish_state(t, "IDLE",
                          <<"game", IF exit_info[t].game_id = NoGame THEN "unknown"
                                    ELSE exit_info[t].game_id,
                            "crashed", "code", str(exit_info[t].returncode)>>,
                          NoGame, <<>>)
    /\ Goto(t, AfterHpe(site[t]))
    /\ DropLocals(t)
    /\ hgame' = IF t = "msg" /\ site[t] # "L97" THEN NoGame ELSE hgame
    /\ expected' = IF t = "main" THEN FALSE ELSE expected
    /\ UNCHANGED <<platform, unitVars, pmVars, nspawn>>

\* ------------------------------------------------ Orchestrator._on_connect
\* the broker (re)connects: `self._pm.is_running()` is evaluated first
on_connect ==
    /\ pc["msg"] = "idle"
    /\ site' = [site EXCEPT !["msg"] = "C76"]
    /\ Goto("msg", "isr_a")
    /\ Log("msg", <<(<<"connect">>)>>)
    /\ UNCHANGED <<platform, unitVars, pmVars, osVars, localVars, published>>

\* `self._publish_state("IDLE" if not self._pm.is_running() else "RUNNING")`
on_connect_76 ==
    /\ pc["msg"] \in {"C76_running", "C76_idle"}
    /\ publish_state("msg", IF pc["msg"] = "C76_running" THEN "RUNNING" ELSE "IDLE", <<>>,
                     NoGame, <<>>)
    /\ Goto("msg", "ret")
    /\ DropLocals("msg")
    /\ UNCHANGED <<platform, unitVars, pmVars, nspawn, hgame, expected>>

\* ----------------------------------------- Orchestrator._handle_launch_intent
\* handle_launch_intent stopping the current game when the name is unknown
handle_launch_intent_stops(spoken) ==
    /\ pc["msg"] = "idle"
    /\ IF resolve(spoken) = NoGame
       THEN /\ publish_state("msg", "ERROR", <<"unknown game", spoken>>, NoGame,
                               <<(<<"stop">>)>>)
            /\ site' = [site EXCEPT !["msg"] = "E130"]
            /\ Goto("msg", "stop65")
            /\ UNCHANGED hgame
       ELSE /\ nspawn < MaxProcs
            /\ hgame' = resolve(spoken)
            /\ site' = [site EXCEPT !["msg"] = "L95"]
            /\ Goto("msg", "isr_a")
            /\ UNCHANGED <<published, log>>
    /\ UNCHANGED <<platform, unitVars, pmVars, osVars, proc, game, exc, exit_info, returncode,
                   expected>>

\* a launch intent arrives: resolve the spoken name; an unknown name is
\* published as ERROR and the handler returns
handle_launch_intent(spoken) ==
    /\ pc["msg"] = "idle"
    /\ IF resolve(spoken) = NoGame
       THEN /\ publish_state("msg", "ERROR", <<"unknown game", spoken>>, NoGame, <<>>)
            /\ Goto("msg", "ret")
            /\ UNCHANGED <<site, hgame>>
       ELSE /\ nspawn < MaxProcs
            /\ hgame' = resolve(spoken)
            /\ site' = [site EXCEPT !["msg"] = "L95"]
            /\ Goto("msg", "isr_a")
            /\ UNCHANGED <<published, log>>
    /\ UNCHANGED <<platform, unitVars, pmVars, osVars, proc, game, exc, exit_info, returncode,
                   expected>>

\* handle_launch_intent_96 without the call of stop(): a direct replace
handle_launch_intent_96_no_stop ==
    /\ pc["msg"] = "L96"
    /\ publish_state("msg", "STOPPING", <<>>, NoGame, <<>>)
    /\ Goto("msg", "L102")
    /\ UNCHANGED <<platform, unitVars, pmVars, osVars, localVars, site>>

\* `self._publish_state("STOPPING")`, then `self._pm.stop()`
handle_launch_intent_96 ==
    /\ pc["msg"] = "L96"
    /\ publish_state("msg", "STOPPING", <<>>, NoGame, <<(<<"stop">>)>>)
    /\ site' = [site EXCEPT !["msg"] = "L97"]
    /\ Goto("msg", "stop65")
    /\ UNCHANGED <<platform, unitVars, pmVars, osVars, localVars>>

\* `self._publish_state("STARTING", game_id=game.id)`, then `self._pm.start(game)`
handle_launch_intent_102 ==
    /\ pc["msg"] = "L102"
    /\ publish_state("msg", "STARTING", <<>>, hgame, <<(<<"start", hgame, pmVars>>)>>)
    /\ site' = [site EXCEPT !["msg"] = "L103"]
    /\ Goto("msg", "isr_a")
    /\ UNCHANGED <<platform, unitVars, pmVars, osVars, localVars>>

\* handle_launch_intent_104 going on to RUNNING after a failed health check
handle_launch_intent_104_ignore ==
    /\ pc["msg"] = "L104"
    /\ \/ /\ Goto("msg", "L120")
          /\ Log("msg", <<(<<"healthy">>)>>)
       \/ /\ healthcheck(hgame) # "none"
          /\ Goto("msg", "L120")
          /\ Log("msg", <<(<<"unhealthy">>)>>)
    /\ UNCHANGED <<platform, unitVars, pmVars, osVars, localVars, site, published>>

\* `self._health.wait_until_healthy(game)`: returns, or raises HealthCheckError
\* (a game without a health check cannot fail it)
handle_launch_intent_104 ==
    /\ pc["msg"] = "L104"
    /\ \/ /\ Goto("msg", "L120")
          /\ Log("msg", <<(<<"healthy">>)>>)
       \/ /\ healthcheck(hgame) # "none"
          /\ Goto("msg", "L107")
          /\ Log("msg", <<(<<"unhealthy">>)>>)
    /\ UNCHANGED <<platform, unitVars, pmVars, osVars, localVars, site, published>>

\* the two except clauses: `self._publish_state("ERROR", str(exc), game_id=game.id)`,
\* then `self._pm.stop()`
handle_launch_intent_107 ==
    /\ pc["msg"] \in {"L107", "L114"}
    /\ publish_state("msg", "ERROR",
                     <<"error", IF pc["msg"] = "L107" THEN "healthcheck" ELSE "launch">>,
                     hgame, <<(<<"stop">>)>>)
    /\ site' = [site EXCEPT !["msg"] = IF pc["msg"] = "L107" THEN "L108" ELSE "L115"]
    /\ Goto("msg", "stop65")
    /\ UNCHANGED <<platform, unitVars, pmVars, osVars, localVars>>

\* `self._publish_state("RUNNING", game_id=game.id)`
handle_launch_intent_120 ==
    /\ pc["msg"] = "L120"
    /\ publish_state("msg", "RUNNING", <<>>, hgame, <<>>)
    /\ Goto("msg", "ret")
    /\ DropLocals("msg")
    /\ hgame' = NoGame
    /\ UNCHANGED <<platform, unitVars, pmVars, nspawn, expected>>

\* ------------------------------------------- Orchestrator._handle_exit_intent
\* an exit intent (BACK_HOME, QUIT) arrives: `self._pm.is_running()` first
handle_exit_intent ==
    /\ pc["msg"] = "idle"
    /\ site' = [site EXCEPT !["msg"] = "E123"]
    /\ Goto("msg", "isr_a")
    /\ Log("msg", <<(<<"exit_intent">>)>>)
    /\ UNCHANGED <<platform, unitVars, pmVars, osVars, localVars, published>>

\* handle_exit_intent_125 going on to stop() as the running case does
handle_exit_intent_125_stop ==
    /\ pc["msg"] = "E125"
    /\ publish_state("msg", "IDLE", <<>>, NoGame, <<(<<"stop">>)>>)
    /\ site' = [site EXCEPT !["msg"] = "E130"]
    /\ Goto("msg", "stop65")
    /\ UNCHANGED <<platform, unitVars, pmVars, osVars, localVars>>

\* not running: `self._publish_state("IDLE")`
handle_exit_intent_125 ==
    /\ pc["msg"] = "E125"
    /\ publish_state("msg", "IDLE", <<>>, NoGame, <<>>)
    /\ Goto("msg", "ret")
    /\ DropLocals("msg")
    /\ UNCHANGED <<platform, unitVars, pmVars, nspawn, hgame, expected>>

\* running: `self._publish_state("STOPPING")`, then `self._pm.stop()`
handle_exit_intent_129 ==
    /\ pc["msg"] = "E129"
    /\ publish_state("msg", "STOPPING", <<>>, NoGame, <<(<<"stop">>)>>)
    /\ site' = [site EXCEPT !["msg"] = "E130"]
    /\ Goto("msg", "stop65")
    /\ UNCHANGED <<platform, unitVars, pmVars, osVars, localVars>>

\* the handler (or _poll_for_exit) returns to paho's loop (or to run()'s loop)
handler_return(t) ==
    /\ pc[t] = "ret"
    /\ Goto(t, IF t = "msg" THEN "idle" ELSE "sleep")
    /\ log' = [log EXCEPT ![t] = <<>>]
    /\ UNCHANGED <<platform, unitVars, pmVars, osVars, localVars, site, published>>

\* --------------------------------------------------------- Orchestrator.run
\* `while True: self._poll_for_exit()`
run_161 ==
    /\ pc["main"] = "sleep"
    /\ Goto("main", "poll109")
    /\ UNCHANGED <<platform, unitVars, log, pmVars, osVars, localVars, site, published>>

\* KeyboardInterrupt arrives in the loop
run_163 ==
    /\ pc["main"] \in LoopPcs \/ (pc["main"] = "hpe" /\ site["main"] = "P153")
    /\ Goto("main", "R166")
    /\ DropLocals("main")
    /\ expected' = FALSE
    /\ log' = [log EXCEPT !["main"] = <<>>]
    /\ UNCHANGED <<platform, unitVars, pmVars, nspawn, hgame, published>>

\* finally: `self._client.loop_stop()` joins the network thread, which ends
\* after the callback it is in; then `self._pm.stop()`
run_166 ==
    /\ pc["main"] = "R166"
    /\ pc["msg"] \in {"idle", "dead"}
    /\ pc' = [pc EXCEPT !["msg"] = "stopped", !["main"] = "stop65"]
    /\ site' = [site EXCEPT !["main"] = "R168"]
    /\ Log("main", <<(<<"stop">>)>>)
    /\ UNCHANGED <<platform, unitVars, pmVars, osVars, localVars, published>>

\* ------------------------------------------------------- the specification
Next ==
    \/ \E p \in Pids : ProcExits(p)
    \/ on_connect
    \/ on_connect_76
    \/ \E spoken \in Spoken : handle_launch_intent(spoken)
    \/ handle_launch_intent_96
    \/ handle_launch_intent_102
    \/ handle_launch_intent_104
    \/ handle_launch_intent_107
    \/ handle_launch_intent_120
    \/ handle_exit_intent
    \/ handle_exit_intent_125
    \/ handle_exit_intent_129
    \/ is_running_a
    \/ is_running_b
    \/ start_49
    \/ start_60
    \/ start_61
    \/ start_62
    \/ \E t \in Threads : stop_65(t)
    \/ \E t \in Threads : stop_68(t)
    \/ \E t \in Threads : stop_69(t)
    \/ \E t \in Threads : stop_70(t)
    \/ \E t \in Threads : stop_73(t)
    \/ \E t \in Threads : stop_74(t)
    \/ \E t \in Threads : stop_80(t)
    \/ \E t \in Threads : stop_83(t)
    \/ \E t \in Threads : stop_88(t)
    \/ \E t \in Threads : stop_92(t)
    \/ \E t \in Threads : stop_98(t)
    \/ \E t \in Threads : stop_103(t)
    \/ \E t \in Threads : stop_104(t)
    \/ \E t \in Threads : stop_105(t)
    \/ \E t \in Threads : handle_process_exit(t)
    \/ \E t \in Threads : handler_return(t)
    \/ run_161
    \/ poll_exit_109
    \/ poll_exit_112
    \/ poll_exit_113
    \/ poll_exit_115
    \/ poll_exit_124
    \/ poll_exit_125
    \/ poll_exit_126
    \/ poll_exit_127
    \/ poll_for_exit_152
    \/ run_163
    \/ run_166

Spec == Init /\ [][Next]_vars

\* the statements of stop(), which either thread executes
StopStep(t) ==
    \/ stop_65(t) \/ stop_68(t) \/ stop_69(t) \/ stop_70(t) \/ stop_73(t) \/ stop_74(t)
    \/ stop_80(t) \/ stop_83(t) \/ stop_88(t) \/ stop_92(t) \/ stop_98(t)
    \/ stop_103(t) \/ stop_104(t) \/ stop_105(t)

\* a step of the network thread inside the callback it is running
MsgStep ==
    \/ on_connect_76
    \/ handle_launch_intent_96 \/ handle_launch_intent_102 \/ handle_launch_intent_104
    \/ handle_launch_intent_107 \/ handle_launch_intent_120
    \/ handle_exit_intent_125 \/ handle_exit_intent_129
    \/ is_running_a \/ is_running_b
    \/ start_49 \/ start_60 \/ start_61 \/ start_62
    \/ StopStep("msg") \/ handle_process_exit("msg") \/ handler_return("msg")

\* a step of the main thread: the polling loop of run() and its finally block
MainStep ==
    \/ run_161
    \/ poll_exit_109 \/ poll_exit_112 \/ poll_exit_113 \/ poll_exit_115
    \/ poll_exit_124 \/ poll_exit_125 \/ poll_exit_126 \/ poll_exit_127
    \/ poll_for_exit_152
    \/ run_166
    \/ StopStep("main") \/ handle_process_exit("main") \/ handler_return("main")

\* The two threads keep running: a callback in progress goes on to its end
\* and the loop of run() polls again after every sleep.  Nothing obliges an
\* intent, a reconnect, an interrupt or the exit of a child to happen.
LiveSpec == Spec /\ WF_vars(MsgStep) /\ WF_vars(MainStep)

\* ------------------------------------------------------------ HealthChecker
\* wait_until_healthy(game) taken on its own: one call, for every health-check
\* configuration a game can have and every way the endpoint can answer.
\* Time is counted in tenths of a second.
Types == {None, <<"">>, <<"none">>, <<"NONE">>, <<"http">>, <<"Http">>, <<"tcp">>}
Ports == {None, <<8080>>}
Timeouts == 0..MaxTimeout
Intervals == 1..MaxInterval
\* the status codes the endpoint answers with, and the text of the
\* requests.RequestException a request can end with
StatusCodes == {200, 204, 404, 500}
Errors == {"refused"}

\* the settle delay of kind none: 0.2 s
SettleDelay == 2

\* str.lower() on the kinds a configuration can name
kind_lower(k) ==
    CASE k = "NONE" -> "none"
      [] k = "Http" -> "http"
      [] OTHER -> k

\* `(cfg.get("type") or "none").lower()`
check_type(c) == kind_lower(IF c.type = None \/ c.type = <<"">> THEN "none" ELSE c.type[1])

\* `last_error or 'no successful response'`
reason(e) == IF e = None \/ e = <<"">> THEN "no successful response" ELSE e[1]

HealthInit ==
    /\ OrchInit
    /\ RouterOff
    /\ GuardOff
    /\ hc_pc = "H32"
    /\ cfg \in [type : Types, port : Ports, timeout : Timeouts, interval : Intervals]
    /\ clock = 0
    /\ deadline = 0
    /\ last_error = None
    /\ nreq = 0
    /\ raised = None

\* lines 32-41 of wait_until_healthy: the kind decides
wait_until_healthy_33 ==
    /\ hc_pc = "H32"
    /\ IF check_type(cfg) = "none"
       THEN hc_pc' = "H36" /\ UNCHANGED raised
       ELSE IF check_type(cfg) = "http"
       THEN hc_pc' = "W44" /\ UNCHANGED raised
       ELSE /\ hc_pc' = "raised"
            /\ raised' = <<"unknown healthcheck type: ", check_type(cfg)>>
    /\ UNCHANGED <<notHealth, cfg, clock, deadline, last_error, nreq>>

\* `time.sleep(min(0.2, self._defaults.interval_sec)); return`
wait_until_healthy_36 ==
    /\ hc_pc = "H36"
    /\ clock' = clock + (IF SettleDelay < cfg.interval THEN SettleDelay ELSE cfg.interval)
    /\ hc_pc' = "returned"
    /\ UNCHANGED <<notHealth, cfg, deadline, last_error, nreq, raised>>

\* _wait_http reading a port that may be missing and going straight on
wait_http_44_any_port ==
    /\ hc_pc = "W44"
    /\ deadline' = clock + cfg.timeout
    /\ last_error' = None
    /\ hc_pc' = "W55"
    /\ UNCHANGED <<notHealth, cfg, clock, nreq, raised>>

\* lines 44-52 of _wait_http: the port is required; the deadline is set
wait_http_44 ==
    /\ hc_pc = "W44"
    /\ IF cfg.port = None
       THEN /\ hc_pc' = "raised"
            /\ raised' = <<"http healthcheck requires 'port'">>
            /\ UNCHANGED <<deadline, last_error>>
       ELSE /\ deadline' = clock + cfg.timeout
            /\ last_error' = None
            /\ hc_pc' = "W55"
            /\ UNCHANGED raised
    /\ UNCHANGED <<notHealth, cfg, clock, nreq>>

\* `while time.time() < deadline`, and the raise after the loop
wait_http_55 ==
    /\ hc_pc = "W55"
    /\ IF clock < deadline
       THEN hc_pc' = "W57" /\ UNCHANGED raised
       ELSE /\ hc_pc' = "raised"
            /\ raised' = <<"healthcheck timeout: ", reason(last_error)>>
    /\ UNCHANGED <<notHealth, cfg, clock, deadline, last_error, nreq>>

\* `resp = self._session.get(url, timeout=interval)`: the request takes no
\* time or as long as its timeout lets it, and ends with a status code or
\* with a RequestException
wait_http_57 ==
    /\ hc_pc = "W57"
    /\ nreq' = nreq + 1
    /\ \E d \in {0, cfg.interval} : clock' = clock + d
    /\ \/ \E code \in StatusCodes :
             IF 200 <= code /\ code < 300
             THEN hc_pc' = "returned" /\ UNCHANGED last_error
             ELSE hc_pc' = "W64" /\ last_error' = <<"status=" \o Decimal(code)>>
       \/ \E e \in Errors : hc_pc' = "W64" /\ last_error' = <<e>>
    /\ UNCHANGED <<notHealth, cfg, deadline, raised>>

\* `time.sleep(interval)`
wait_http_64 ==
    /\ hc_pc = "W64"
    /\ clock' = clock + cfg.interval
    /\ hc_pc' = "W55"
    /\ UNCHANGED <<notHealth, cfg, deadline, last_error, nreq, raised>>

HealthNext ==
    \/ wait_until_healthy_33
    \/ wait_until_healthy_36
    \/ wait_http_44
    \/ wait_http_55
    \/ wait_http_57
    \/ wait_http_64

HealthSpec == HealthInit /\ [][HealthNext]_vars

\* ------------------------------------------------------------- IntentRouter
\* dispatch(payload) taken on its own: one call, for every payload that
\* json.loads can hand to it.  A JSON string s is <<s>>, null or a missing
\* key is None, and a JSON number is <<its digits, "number">>.
IntentTypes == {None, <<"">>, <<"launch_game">>, <<"LAUNCH_GAME">>, <<"Launch_Game">>,
                <<"back_home">>, <<"BACK_HOME">>, <<"quit">>, <<"QUIT">>, <<"PAUSE">>,
                <<"5", "number">>}
GameNames == {None, <<"">>, <<"a">>}
GameKeys == {None, <<"b">>}
Sources == {None, <<"voice">>}

\* str.upper() on the intent types a payload can carry
upper(k) ==
    CASE k \in {"launch_game", "Launch_Game"} -> "LAUNCH_GAME"
      [] k = "back_home" -> "BACK_HOME"
      [] k = "quit" -> "QUIT"
      [] OTHER -> k

\* `x or y` on two optional strings: x unless it is None or empty
or(x, y) == IF x = None \/ x = <<"">> THEN y ELSE x

RouterInit ==
    /\ OrchInit
    /\ HealthOff
    /\ GuardOff
    /\ ir_pc = "D29"
    /\ payload \in {NoDict} \cup [dict : {TRUE}, type : IntentTypes, game_name : GameNames,
                                  game : GameKeys, source : Sources]
    /\ intent = NoIntent
    /\ handler_calls = <<>>

\* `if not isinstance(payload, dict): ... return`
dispatch_29 ==
    /\ ir_pc = "D29"
    /\ ir_pc' = IF payload.dict THEN "D32" ELSE "returned"
    /\ UNCHANGED <<notRouter, payload, intent, handler_calls>>

\* lines 32-38: the type is upper-cased (a number has no upper(): the
\* AttributeError leaves dispatch) and the Intent is built
dispatch_32 ==
    /\ ir_pc = "D32"
    /\ IF Len(payload.type) = 2
       THEN ir_pc' = "raised" /\ UNCHANGED intent
       ELSE /\ intent' = [type |-> upper(or(payload.type, <<"">>)[1]),
                          game_name |-> or(payload.game_name, payload.game),
                          source |-> payload.source]
            /\ ir_pc' = "D39"
    /\ UNCHANGED <<notRouter, payload, handler_calls>>

\* dispatch with `if` for `elif`: a launch falls through to the exit handler
dispatch_39_fallthrough ==
    /\ ir_pc = "D39"
    /\ handler_calls' = IF intent.type \in {"LAUNCH_GAME", "BACK_HOME", "QUIT"}
                THEN (IF intent.type = "LAUNCH_GAME" THEN <<(<<"on_launch", intent>>)>> ELSE <<>>)
                        \o <<(<<"on_exit", intent>>)>>
                ELSE handler_calls
    /\ ir_pc' = "returned"
    /\ UNCHANGED <<notRouter, payload, intent>>

\* lines 39-44: the handler the type selects is called, if any
dispatch_39 ==
    /\ ir_pc = "D39"
    /\ handler_calls' = IF intent.type = "LAUNCH_GAME" THEN Append(handler_calls, <<"on_launch", intent>>)
                ELSE IF intent.type \in {"BACK_HOME", "QUIT"}
                THEN Append(handler_calls, <<"on_exit", intent>>)
                ELSE handler_calls
    /\ ir_pc' = "returned"
    /\ UNCHANGED <<notRouter, payload, intent>>

RouterNext ==
    \/ dispatch_29
    \/ dispatch_32
    \/ dispatch_39

RouterSpec == RouterInit /\ [][RouterNext]_vars

\* ---------------------------------------- entrypoints and dependency_guard
\* The loading of orchestrator.py and of ui.py, whose import statements run
\* in order, and a call of ensure_dependencies(modules, on_error), for every
\* set of third-party modules that may be missing on the host.
Modules == {"paho.mqtt.client", "yaml", "requests", "jsonschema", "psutil", "tkinter"}

\* the third-party modules an entrypoint imports, in the order of its import
\* statements (those of the local modules it imports included)
imports(e) ==
    IF e = "orchestrator"
    THEN <<"paho.mqtt.client", "yaml", "requests", "jsonschema", "psutil">>
    ELSE <<"paho.mqtt.client", "tkinter", "yaml", "jsonschema">>

\* the lists ensure_dependencies is called with
Required == {<<"paho.mqtt.client", "yaml">>, <<"yaml", "paho.mqtt.client", "psutil">>}

REQUIREMENTS_PATH == "releases/current/orchestrator/requirements.txt"

dependency_message(module_name) ==
    <<"Missing dependency '", module_name, "'. Please run 'pip install -r ",
      REQUIREMENTS_PATH, "' before re-running.">>

GuardInit ==
    /\ OrchInit
    /\ HealthOff
    /\ RouterOff
    /\ dg_pc = 1
    /\ \/ entry \in {"orchestrator", "ui"} /\ modules = imports(entry)
       \/ entry = "ensure_dependencies" /\ modules \in Required
    /\ missing \in SUBSET Modules
    /\ imported = <<>>
    /\ reported = <<>>
    /\ outcome = "none"

\* an import statement of an entrypoint: `import paho.mqtt.client as mqtt`
\* and those after it.  The ImportError of a missing module leaves the
\* module being loaded.
import_statement ==
    /\ entry \in {"orchestrator", "ui"}
    /\ outcome = "none"
    /\ dg_pc \in 1..Len(modules)
    /\ IF modules[dg_pc] \in missing
       THEN /\ outcome' = "ImportError"
            /\ UNCHANGED <<dg_pc, imported>>
       ELSE /\ imported' = Append(imported, modules[dg_pc])
            /\ dg_pc' = dg_pc + 1
            /\ outcome' = IF dg_pc = Len(modules) THEN "loaded" ELSE outcome
    /\ UNCHANGED <<notGuard, entry, modules, missing, reported>>

\* one turn of the loop of ensure_dependencies (lines 34-40)
ensure_dependencies_34 ==
    /\ entry = "ensure_dependencies"
    /\ outcome = "none"
    /\ dg_pc \in 1..Len(modules)
    /\ IF modules[dg_pc] \in missing
       THEN /\ reported' = Append(reported,
                                  <<modules[dg_pc], dependency_message(modules[dg_pc])>>)
            /\ outcome' = "SystemExit(1)"
            /\ UNCHANGED <<dg_pc, imported>>
       ELSE /\ imported' = Append(imported, modules[dg_pc])
            /\ dg_pc' = dg_pc + 1
            /\ outcome' = IF dg_pc = Len(modules) THEN "returned" ELSE outcome
            /\ UNCHANGED reported
    /\ UNCHANGED <<notGuard, entry, modules, missing>>

GuardNext ==
    \/ import_statement
    \/ ensure_dependencies_34

GuardSpec == GuardInit /\ [][GuardNext]_vars

\* ---------------------------------------------------------------- typing
TypeOK ==
    /\ platform \in Platforms
    /\ pm_proc \in Pids \cup {NoProc}
    /\ pm_game \in Games \cup {NoGame}
    /\ pm_stopping \in BOOLEAN
    /\ \A p \in Pids : child[p].state \in {"unborn", "alive", "zombie", "reaped"}
    /\ nspawn \in 0..MaxProcs
    /\ \A t \in Threads : proc[t] \in Pids \cup {NoProc}
    /\ published.mode \in {"NONE", "IDLE", "STARTING", "RUNNING", "STOPPING", "ERROR"}

\* ----------------------------------------------------------------- claims
\* the children spawned by start that are alive
Alive == {p \in Pids : child[p].state = "alive"}

\* the children that have exited
Exited == {p \in Pids : child[p].state \in {"zombie", "reaped"}}

\* neither the network thread nor the polling loop is inside a handler
Quiescent == pc["msg"] = "idle" /\ pc["main"] = "sleep"

\* the polling thread is between the first read and the last write of poll_exit
InPollExit == pc["main"] \in {"poll112", "poll113", "poll115", "poll124", "poll125",
                              "poll126", "poll127"}

\* the statements of stop at which the marker set by line 70 is still in force
MarkerSetPcs == {"stop73", "stop74", "stop80", "stop83", "stop88", "stop92", "stop98",
                 "stop103", "stop104", "stop105"}

\* the network thread is between the first read and the last write of start or stop
InStartOrStop ==
    \/ pc["msg"] \in {"start49", "start60", "start61", "start62", "stop68", "stop69", "stop70"}
    \/ pc["msg"] \in MarkerSetPcs
    \/ pc["msg"] = "isr_b" /\ site["msg"] = "L103"

\* C1: at most one process spawned by ProcessManager.start is alive at any
\* instant, under every interleaving of the two threads.
C1_AtMostOneLiveChild == Cardinality(Alive) <= 1

\* C2: an execution of poll_exit on the polling thread never overlaps an
\* execution of start or stop on the message-handling thread.
C2_MutuallyExclusive == ~(InPollExit /\ InStartOrStop)

\* C3: with no handler and no poll step mid-execution, a last published mode
\* of RUNNING implies that the slot is occupied.
C3_RunningImpliesOccupied ==
    (Quiescent /\ published.mode = "RUNNING") => pm_proc # NoProc

\* C4: with no handler and no poll step mid-execution, a last published mode
\* of IDLE implies that the slot is empty.
C4_IdleImpliesEmpty ==
    (Quiescent /\ published.mode = "IDLE") => pm_proc = NoProc

\* C5: stop() and poll_exit() together return at most one ProcessExit for
\* the same process.
C5_OneExitPerTermination == \A p \in Pids : Cardinality(child[p].exits) <= 1

\* C6: poll_exit never returns expected=false for a process that exited
\* after a signal of stop() had reached it.
C6_StoppedNeverReportedCrashed ==
    \A p \in Exited : child[p].sig # "none" => <<"poll", FALSE>> \notin child[p].exits

\* C7: a process that exited before any stop() was initiated on it is never
\* reported with expected=true, neither by poll_exit nor by a later stop.
C7_SelfExitNeverExpected ==
    \A p \in Pids : child[p].self => \A e \in child[p].exits : ~e[2]

\* C8: when poll_exit reads the marker as true, a stop() of the very process
\* poll_exit is reporting is in flight (marker set, not yet finished).
C8_ExpectedOnlyDuringStopOfSameProcess ==
    [][(pc["main"] = "poll126" /\ pc'["main"] = "poll127" /\ pm_stopping)
         => (pc["msg"] \in MarkerSetPcs /\ proc["msg"] = proc["main"])]_vars

\* C9: start() on an occupied slot raises (the launch handler's except
\* clause is entered), spawns nothing and leaves the slot, the game and the
\* marker unchanged.
C9_StartOnOccupiedSlotFails ==
    [][(pc["msg"] = "isr_b" /\ site["msg"] = "L103" /\ pm_proc # NoProc
          /\ pc'["msg"] # "isr_b")
         => (pc'["msg"] = "L114" /\ UNCHANGED <<pmVars, osVars>>)]_vars

\* C10: stop() on an empty slot returns None, sends no signal and leaves the
\* slot, the game and the marker unchanged.
C10_StopOnEmptySlotIsNoop ==
    [][\A t \in Threads :
         (pc[t] = "stop65" /\ pm_proc = NoProc /\ pc'[t] # "stop65")
           => (exit_info'[t] = NoExit /\ pc'[t] = "hpe" /\ UNCHANGED <<pmVars, osVars>>)]_vars

\* C10 witness: a stop() called on an empty slot has returned None
C10_Witness ==
    \E t \in Threads :
        /\ pc[t] = "hpe"
        /\ site[t] \in {"L97", "L108", "L115", "E130", "R168"}
        /\ ~exit_info[t].some
        /\ pm_proc = NoProc

\* the statements of stop after the test of line 65 has found the slot occupied
StopPcs == {"stop68", "stop69", "stop70"} \cup MarkerSetPcs

\* C11: when a stop() that found the slot occupied finishes, by return or by
\* exception, the slot and the game are empty and the marker is false; a
\* normal return carries a ProcessExit with expected=true.
C11_StopAlwaysClearsSlot ==
    [][\A t \in Threads :
         (pc[t] \in StopPcs /\ pc'[t] \notin StopPcs)
           => /\ pm_proc' = NoProc
              /\ pm_game' = NoGame
              /\ ~pm_stopping'
              /\ pc'[t] = "hpe" => (exit_info'[t].some /\ exit_info'[t].expected)]_vars

\* the last thing the network thread did in its handler invocation
LastEvent == log["msg"][Len(log["msg"])]

\* the network thread is inside a start() that it called on an empty slot
InStartOnEmptySlot ==
    /\ log["msg"] # <<>>
    /\ LastEvent[1] = "start"
    /\ LastEvent[3][1] = NoProc

\* C12: a start(game) called on an empty slot that fails leaves the slot, the
\* game and the marker as they were when it was called; one that succeeds
\* returns with the new process and its game in the slot and the marker false.
C12_StartFrame ==
    [][InStartOnEmptySlot =>
         /\ (pc["msg"] # "L114" /\ pc'["msg"] = "L114") => pmVars' = LastEvent[3]
         /\ (pc["msg"] = "start62" /\ pc'["msg"] = "L104")
              => (pm_proc' = proc["msg"] /\ pm_game' = LastEvent[2] /\ ~pm_stopping')]_vars

\* the kinds of the events the network thread has logged, in order
Kinds == [i \in DOMAIN log["msg"] |-> log["msg"][i][1]]

\* the network thread is in a launch handler that found a game running
\* (is_running() was true at line 95, so STOPPING was published first)
Swap ==
    /\ hgame # NoGame
    /\ log["msg"] # <<>>
    /\ log["msg"][1][1] = "publish"
    /\ log["msg"][1][2] = "STOPPING"

\* the statements of a launch handler from the return of its first stop()
\* to the statement of start() that stores the new process in the slot
BeforeStorePcs == {"L102", "isr_a", "isr_b", "start49", "start60"}

\* C13: in a launch handler that found a game running, start() is called
\* only after STOPPING was published and stop() has returned, and from that
\* return until the new process is stored the slot is empty, so that the new
\* game is never spawned while the old one occupies the slot.
C13_SwapIsStopThenStart ==
    Swap =>
      /\ \A i \in DOMAIN Kinds :
            Kinds[i] = "start" => (i > 3 /\ Kinds[2] = "stop" /\ Kinds[3] = "stop_returned")
      /\ (pc["msg"] = "hpe" /\ site["msg"] = "L97") => pm_proc = NoProc
      /\ (pc["msg"] \in BeforeStorePcs /\ Len(Kinds) >= 3) => pm_proc = NoProc

\* C13 witness: the handler of a swap has stopped the old game, and start()
\* has spawned the new one and returned
C13_Witness ==
    /\ Swap
    /\ pc["msg"] = "L104"
    /\ Kinds[Len(Kinds)] = "start_returned"
    /\ pm_proc # NoProc

\* the payloads the network thread has published in its handler invocation
Pubs == SelectSeq(log["msg"], LAMBDA e : e[1] = "publish")

\* a payload without detail
Payload(mode, game_id) == <<"publish", mode, game_id, <<>>>>

\* a launch handler is about to return that found a game running, got from
\* stop() the ProcessExit of a game that had not exited on its own, started
\* the new game and found it healthy
CleanSwapDone ==
    /\ pc["msg"] = "ret"
    /\ Len(log["msg"]) >= 3
    /\ log["msg"][1][1] = "publish"
    /\ log["msg"][1][2] = "STOPPING"
    /\ log["msg"][3] = <<"stop_returned", TRUE, FALSE>>
    /\ LastEvent[1] = "publish"
    /\ LastEvent[2] = "RUNNING"

\* the game the handler passed to start()
StartedGame == log["msg"][CHOOSE i \in DOMAIN Kinds : Kinds[i] = "start"][2]

C15_LaunchOrdering ==
    \A i \in DOMAIN Kinds :
        /\ Kinds[i] = "start" =>
              /\ i > 1
              /\ log["msg"][i - 1] = Payload("STARTING", log["msg"][i][2])
              /\ hgame # NoGame => log["msg"][i][2] = hgame
        /\ Kinds[i] \in {"start_returned", "start_raised"} => (i > 1 /\ Kinds[i - 1] = "start")
        /\ Kinds[i] \in {"healthy", "unhealthy"} => (i > 1 /\ Kinds[i - 1] = "start_returned")
        /\ (Kinds[1] # "connect" /\ Kinds[i] = "publish" /\ log["msg"][i][2] = "RUNNING") =>
              /\ i > 3
              /\ Kinds[i - 1] = "healthy"
              /\ Kinds[i - 2] = "start_returned"
              /\ Kinds[i - 3] = "start"
              /\ log["msg"][i] = Payload("RUNNING", log["msg"][i - 3][2])
              /\ \A j \in DOMAIN Kinds : Kinds[j] \notin {"start_raised", "unhealthy"}

\* C15 witness: a launch handler has published RUNNING after a successful
\* start and health check
C15_Witness ==
    /\ pc["msg"] = "ret"
    /\ Len(Kinds) > 3
    /\ LastEvent[1] = "publish"
    /\ LastEvent[2] = "RUNNING"
    /\ Kinds[Len(Kinds) - 1] = "healthy"
    /\ pm_proc # NoProc

\* C16: when poll_exit has returned a ProcessExit with expected=false for
\* game g with exit code c, _poll_for_exit publishes one IDLE whose detail
\* holds g, "crashed" and the decimal form of c, and nothing else; when
\* poll_exit has returned None or an expected exit it publishes nothing.
\* (A KeyboardInterrupt that ends run()'s loop at that statement is set aside.)
C16_CrashPublication ==
    [][/\ (pc["main"] = "P152" /\ pc'["main"] = "hpe") =>
              (exit_info["main"].some /\ ~exit_info["main"].expected)
       /\ (pc["main"] = "hpe" /\ site["main"] = "P153" /\ pc'["main"] \notin {"hpe", "R166"}
              /\ exit_info["main"].game_id # NoGame
              /\ exit_info["main"].returncode # NoCode) =>
              /\ pc'["main"] = "ret"
              /\ Len(log'["main"]) = 1
              /\ log'["main"][1][1] = "publish"
              /\ log'["main"][1][2] = "IDLE"
              /\ log'["main"][1][4] = <<"game", exit_info["main"].game_id, "crashed", "code",
                                        str(exit_info["main"].returncode)>>
              /\ published'.mode = "IDLE"
       /\ (pc["main"] = "ret" /\ pc'["main"] = "sleep") => Len(log["main"]) = 1
       /\ (pc["main"] \in {"poll109", "poll115", "P152"} /\ pc'["main"] = "sleep") =>
              (log["main"] = <<>> /\ UNCHANGED <<published, log>>)]_vars

\* C16 witness: the polling path has published the crash of game A, which
\* had exited with status 137
C16_Witness ==
    /\ pc["main"] = "ret"
    /\ log["main"] = <<(<<"publish", "IDLE", published.game_id,
                          <<"game", "A", "crashed", "code", "137">>>>)>>

\* C17: an exit intent for which is_running() is false publishes just one
\* IDLE and returns, having called neither start nor stop, and none of the
\* handler's steps changes the slot, the game, the marker or a child process;
\* this holds of every such intent, however often it is repeated.
C17_ExitWhileIdle ==
    [][/\ (pc["msg"] \in {"isr_a", "isr_b"} /\ site["msg"] = "E123" /\ pc'["msg"] # pc["msg"]) =>
              UNCHANGED <<pmVars, osVars, published>>
       /\ (pc["msg"] = "E125" /\ pc'["msg"] # "E125") =>
              /\ pc'["msg"] = "ret"
              /\ log'["msg"] = <<(<<"exit_intent">>), Payload("IDLE", pm_game)>>
              /\ published'.mode = "IDLE"
              /\ UNCHANGED <<pmVars, osVars>>]_vars

\* C17 witness: an exit intent has been answered with IDLE on the slot that
\* was never occupied
C17_Witness ==
    /\ pc["msg"] = "ret"
    /\ log["msg"] = <<(<<"exit_intent">>), Payload("IDLE", NoGame)>>
    /\ pm_proc = NoProc
    /\ nspawn = 0

\* the handler invocation of the network thread is over: it returns, or an
\* exception has left it
HandlerOver == pc["msg"] \in {"ret", "dead"}

\* C18: the handler of an exit intent that found a game running publishes
\* STOPPING, calls stop() and then publishes IDLE, and when it is over the
\* slot is empty and the last published mode is IDLE.
C18_ExitWhileRunning ==
    (HandlerOver /\ Len(Kinds) >= 2 /\ Kinds[1] = "exit_intent" /\ Kinds[2] = "publish"
       /\ log["msg"][2][2] = "STOPPING") =>
        /\ pc["msg"] = "ret"
        /\ Kinds = <<"exit_intent", "publish", "stop", "stop_returned", "publish">>
        /\ log["msg"][5][2] = "IDLE"
        /\ pm_proc = NoProc
        /\ published.mode = "IDLE"

\* the names a launch intent can carry that stand for no game
UnknownNames == {spoken \in Spoken : resolve(spoken) = NoGame}

\* C19: the handler of a launch intent whose name resolves to no game
\* publishes one ERROR with the detail "unknown game: <name>" and returns,
\* having called neither start nor stop and leaving the slot, the game, the
\* marker and every child process as they were.
C19_UnknownGame ==
    [][(pc["msg"] = "idle" /\ pc'["msg"] \notin {"idle", "stopped"} /\ hgame' = NoGame
          /\ log'["msg"] # <<>>
          /\ log'["msg"][1][1] \notin {"connect", "exit_intent"}) =>
         /\ pc'["msg"] = "ret"
         /\ \E spoken \in UnknownNames :
               log'["msg"] = <<(<<"publish", "ERROR", pm_game, <<"unknown game", spoken>>>>)>>
         /\ published'.mode = "ERROR"
         /\ UNCHANGED <<pmVars, osVars>>]_vars

\* C19 witness: an unknown name was answered with ERROR while a game is
\* running, which is still alive in the slot
C19_Witness ==
    /\ pc["msg"] = "ret"
    /\ log["msg"] = <<(<<"publish", "ERROR", pm_game, <<"unknown game", "?">>>>)>>
    /\ pm_proc # NoProc
    /\ child[pm_proc].state = "alive"
    /\ pm_game # NoGame

\* the positions in the handler's log at which start raised or the health
\* check failed
Failures == {i \in DOMAIN Kinds : Kinds[i] \in {"start_raised", "unhealthy"}}

\* C20: a launch handler in which start raised or the health check failed
\* publishes ERROR with the failure detail and the game id, then calls
\* stop(), and returns (no exception leaves it) with the slot empty and the
\* process it had started, if any, no longer alive.
C20_LaunchFailureCleanup ==
    (HandlerOver /\ Failures # {}) =>
        LET i == CHOOSE f \in Failures : TRUE
        IN  /\ pc["msg"] = "ret"
            /\ Len(Kinds) >= i + 3
            /\ log["msg"][i + 1] =
                  <<"publish", "ERROR", StartedGame,
                    <<"error", IF Kinds[i] = "unhealthy" THEN "healthcheck" ELSE "launch">>>>
            /\ Kinds[i + 2] = "stop"
            /\ Kinds[i + 3] = "stop_returned"
            /\ pm_proc = NoProc
            /\ Kinds[i] = "unhealthy" => child[nspawn].state # "alive"

\* run() was interrupted and is shutting down, or has returned
ShuttingDown == pc["main"] = "R166" \/ pc["msg"] = "stopped"

\* C21: when a handler has returned and ERROR is the last published mode,
\* IDLE is published later on, unless another callback (an intent, a
\* reconnect) begins or run() is interrupted before that.
C21_ErrorThenIdle ==
    (published.mode = "ERROR" /\ pc["msg"] = "idle")
        ~> (published.mode = "IDLE" \/ pc["msg"] # "idle" \/ ShuttingDown)

\* the kinds that stand for none and for http, in any letter case
NoneKinds == {None, <<"">>, <<"none">>, <<"NONE">>}
HttpKinds == {<<"http">>, <<"Http">>}

\* wait_until_healthy is over
HealthDone == hc_pc \in {"returned", "raised"}

\* C22: wait_until_healthy issues a request only for kind http with a port;
\* kind none (or no kind) returns with no request made, kind http without a
\* port raises HealthCheckError with no request made, and so does any other
\* kind.
C22_RequestsOnlyForHttpWithPort ==
    /\ nreq > 0 => (cfg.type \in HttpKinds /\ cfg.port # None)
    /\ (HealthDone /\ cfg.type \in NoneKinds) =>
          (hc_pc = "returned" /\ raised = None /\ nreq = 0)
    /\ (HealthDone /\ cfg.type \in HttpKinds /\ cfg.port = None) =>
          (hc_pc = "raised" /\ raised = <<"http healthcheck requires 'port'">> /\ nreq = 0)
    /\ (HealthDone /\ cfg.type \notin NoneKinds \cup HttpKinds) =>
          (hc_pc = "raised" /\ raised = <<"unknown healthcheck type: ", cfg.type[1]>>
             /\ nreq = 0)

\* C22 witness: a check of kind http without a port has ended
C22_Witness == HealthDone /\ cfg.type = <<"Http">> /\ cfg.port = None /\ raised # None

\* _wait_http has given up: the HealthCheckError of line 66 was raised
TimedOut == hc_pc = "raised" /\ raised # None /\ raised[1] = "healthcheck timeout: "

\* C23: when _wait_http gives up on an endpoint that never answered 2xx, it
\* does so at the deadline (start time + timeout), not later, and the error
\* names the last failure seen, or "no successful response" when no request
\* was made.
C23_FailsExactlyAtDeadline ==
    TimedOut =>
        /\ clock = deadline
        /\ raised[2] = (IF nreq = 0 THEN "no successful response" ELSE last_error[1])

\* the types that stand for a launch and for an exit, in any letter case
LaunchTypes == {<<"launch_game">>, <<"LAUNCH_GAME">>, <<"Launch_Game">>}
ExitTypes == {<<"back_home">>, <<"BACK_HOME">>, <<"quit">>, <<"QUIT">>}

\* dispatch is over
DispatchDone == ir_pc \in {"returned", "raised"}

\* C24: dispatch calls at most one handler, at most once: the launch handler
\* alone for a dict whose type is LAUNCH_GAME, with the name from game_name
\* or else from game; the exit handler alone for BACK_HOME or QUIT; none for
\* any other type, a missing type or a payload that is no dict.
C24_AtMostOneHandler ==
    /\ Len(handler_calls) <= 1
    /\ (DispatchDone /\ payload.dict /\ payload.type \in LaunchTypes) =>
          /\ Len(handler_calls) = 1
          /\ handler_calls[1][1] = "on_launch"
          /\ handler_calls[1][2].type = "LAUNCH_GAME"
          /\ handler_calls[1][2].game_name =
                (IF payload.game_name \in {<<"a">>} THEN payload.game_name ELSE payload.game)
    /\ (DispatchDone /\ payload.dict /\ payload.type \in ExitTypes) =>
          /\ Len(handler_calls) = 1
          /\ handler_calls[1][1] = "on_exit"
    /\ (DispatchDone /\ ~(payload.dict /\ payload.type \in LaunchTypes \cup ExitTypes)) =>
          handler_calls = <<>>

\* C24 witness: a launch whose name came from the key `game` was dispatched
C24_Witness ==
    /\ ir_pc = "returned"
    /\ payload.type = <<"launch_game">>
    /\ payload.game_name = <<"">>
    /\ handler_calls = <<(<<"on_launch", [type |-> "LAUNCH_GAME", game_name |-> <<"b">>,
                                   source |-> payload.source]>>)>>

\* run() is over: its finally block has returned, or stop() has raised in it
RunOver == pc["main"] = "done"

\* C25: once run() has been interrupted and is over, message delivery has
\* stopped, stop() has been called, the slot is empty and no child process
\* that start() spawned is alive.
C25_ShutdownLeavesNothing ==
    RunOver =>
        /\ pc["msg"] = "stopped"
        /\ log["main"] # <<>>
        /\ log["main"][1] = <<"stop">>
        /\ pm_proc = NoProc
        /\ Alive = {}

\* C26: the loading of the orchestrator or of the UI entrypoint with
\* paho.mqtt.client missing ends with SystemExit(1) after one report through
\* the dependency guard, whose message names the module and the pip command,
\* and imports no later module.
C26_MissingDependencyReported ==
    (entry \in {"orchestrator", "ui"} /\ "paho.mqtt.client" \in missing /\ outcome # "none") =>
        /\ reported = <<(<<"paho.mqtt.client", dependency_message("paho.mqtt.client")>>)>>
        /\ outcome = "SystemExit(1)"
        /\ imported = <<>>


\* the slot holds a process that is still alive
HeldAlive == pm_proc # NoProc /\ child[pm_proc].state = "alive"

\* a step of the polling thread inside poll_exit
PollExitStep == (pc["main"] = "poll109" \/ InPollExit) /\ pc'["main"] # pc["main"]

\* C27: poll_exit returns None and raises nothing when the slot is empty, and
\* no statement of it changes the slot, the associated game or the
\* stop-in-flight marker while the slot holds a process that is still alive;
\* it clears them only for a held process that has terminated.
C27_PollExitFrame ==
    [][PollExitStep =>
          /\ ~(pc["main"] = "poll115" /\ proc["main"] = NoProc)
          /\ HeldAlive => UNCHANGED <<pm_proc, pm_game, pm_stopping>>]_vars


\* a handler's log shows an IDLE publication that reports game g as crashed
CrashPublished(g) ==
    \E t \in Threads : \E i \in DOMAIN log[t] :
        /\ log[t][i][1] = "publish"
        /\ log[t][i][2] = "IDLE"
        /\ Len(log[t][i][4]) >= 3
        /\ log[t][i][4][2] = g
        /\ log[t][i][4][3] = "crashed"

\* the slot holds process p of game g, which has exited on its own, and
\* neither thread is inside a handler or a poll
CrashedInSlot(p, g) ==
    /\ Quiescent
    /\ pm_proc = p
    /\ pm_game = g
    /\ child[p].self
    /\ child[p].state # "alive"

\* C28: with the polling loop and the callbacks scheduled fairly, a process
\* that has exited on its own while it occupies the slot is followed by an
\* IDLE publication reporting its game as crashed, whichever intents arrive
\* before the next poll (unless run() is interrupted first).
C28_CrashAlwaysReported ==
    \A p \in Pids : \A g \in Games :
        CrashedInSlot(p, g) ~> (CrashPublished(g) \/ ShuttingDown)


\* the statements of the operations of ProcessManager: is_running, start,
\* stop and poll_exit
PmPcs == {"isr_a", "isr_b", "start49", "start60", "start61", "start62",
          "stop65", "stop68", "stop69", "stop70", "stop73", "stop74", "stop80", "stop83",
          "stop88", "stop92", "stop98", "stop103", "stop104", "stop105",
          "poll109", "poll112", "poll113", "poll115", "poll124", "poll125", "poll126",
          "poll127"}

\* no thread is inside an operation of ProcessManager
NoPmOperation == \A t \in Threads : pc[t] \notin PmPcs

\* C29: whenever no operation of ProcessManager is mid-execution on either
\* thread, current_game_id is non-null exactly when the slot holds a process
\* handle.  (The states after a KeyboardInterrupt, which can cut poll_exit
\* short, are set aside.)
C29_HandleAndGameTogether ==
    (NoPmOperation /\ ~ShuttingDown) => (current_game_id # NoGame <=> pm_proc # NoProc)


\* C30: the last publication, when its mode is IDLE, carries a null game_id,
\* and when its mode is STOPPING, carries the id of a game (the one being
\* stopped).
C30_GameIdDescribesState ==
    /\ published.mode = "IDLE" => published.game_id = NoGame
    /\ published.mode = "STOPPING" => published.game_id # NoGame

====
